---- MODULE Spec2Model ----
(***************************************************************************)
(* Model of train_model.ipynb: the segmentation routine import_data, the   *)
(* per-file accumulation loop that assembles X and y, the magnitude        *)
(* spectrum transform, the train/test split and the fit/evaluate cells.    *)
(*                                                                         *)
(* A numpy array is a record [shape, rows]: shape is the tuple of          *)
(* dimensions and rows the elements along axis 0 (scalars for a 1-D array, *)
(* sequences for a 2-D array).  A float obtained by a division is the      *)
(* reduced fraction <<numerator, denominator>>; <<0, 0>> is nan.           *)
(***************************************************************************)
EXTENDS Integers, Sequences, FiniteSets, TLC

(* ------------------------------ bounds -------------------------------- *)
MaxWritten == 2      \* entries written in a generated file table
MaxFrames == 3       \* frames of a recording on disk
MaxChannels == 2     \* channels of a recording on disk
MaxSegSize == 3      \* segment_size of a generated run
MaxFullPerm == 3     \* row count up to which every shuffle is enumerated

(* ------------------------- program constants -------------------------- *)
n_classes == 5

Classes == 0..(n_classes - 1)

\* the table literal of the notebook, as written (20 entries)
NotebookTable ==
  << <<"plastic_spheres_1.wav", 0>>, <<"plastic_spheres_2.wav", 0>>,
     <<"plastic_spheres_3.wav", 0>>, <<"plastic_spheres_4.wav", 0>>,
     <<"steel_nut_M3_1.wav", 1>>, <<"steel_nut_M3_2.wav", 1>>,
     <<"steel_nut_M3_3.wav", 1>>, <<"steel_nut_M3_4.wav", 1>>,
     <<"steel_nut_M4_1.wav", 2>>, <<"steel_nut_M4_2.wav", 2>>,
     <<"steel_nut_M4_3.wav", 2>>, <<"steel_nut_M4_4.wav", 2>>,
     <<"messing_nut_M4_1.wav", 3>>, <<"messing_nut_M4_1.wav", 3>>,
     <<"messing_nut_M4_1.wav", 3>>, <<"messing_nut_M4_1.wav", 3>>,
     <<"screws_1.wav", 4>>, <<"screws_2.wav", 4>>,
     <<"screws_3.wav", 4>>, <<"screws_4.wav", 4>> >>

(* ------------------------------ state --------------------------------- *)
VARIABLES
  written,        \* the entries of the flist literal, in written order
  flist,          \* the dict built from the literal: <<fname, nclass>> items
  disk,           \* fname -> the recording stored under fprefix+fname
  segment_size, segment_step,
  pc,             \* the statement about to run
  err,            \* the exception that ended the run ("" if none)
  idx,            \* items of flist.items() consumed by the for loop
  fname, nclass,  \* loop variables
  data,           \* local of import_data
  im_X, im_y,     \* locals X and y of import_data
  Xt, yt,         \* the arrays import_data returned
  X, y,           \* the global feature and label matrices
  test, train,    \* the index arrays the split draws
  X_train, X_test, y_train, y_test,
  input_dim,      \* input width of the compiled network
  fit_X, fit_y,   \* the arrays model.fit was given
  predict_X,      \* the array model.predict was given
  true            \* argmax of the labels handed to classification_report

loopvars == <<idx, fname, nclass, data, im_X, im_y, Xt, yt>>
splitvars == <<test, train, X_train, X_test, y_train, y_test>>
evalvars == <<input_dim, fit_X, fit_y, predict_X, true>>
inputs == <<written, flist, disk, segment_size, segment_step>>
vars == <<inputs, pc, err, loopvars, X, y, splitvars, evalvars>>

(* --------------------------- arithmetic -------------------------------- *)
Abs(a) == IF a < 0 THEN -a ELSE a
Min(a, b) == IF a < b THEN a ELSE b
Max(a, b) == IF a > b THEN a ELSE b

RECURSIVE GCD(_, _)
GCD(a, b) == IF b = 0 THEN a ELSE GCD(b, a % b)

\* np.ceil(a / b) for integers a and b > 0
Ceil(a, b) == -((-a) \div b)

\* a / b in floating point: a reduced fraction, <<0, 0>> for 0/0 (nan)
Frac(a, b) ==
  IF b = 0 THEN <<0, 0>>
  ELSE LET g == GCD(Abs(a), b) IN <<a \div g, b \div g>>

EmptyArray == [shape |-> <<0>>, rows |-> <<>>]

(* ------------------------- the file table ------------------------------ *)
\* position of key k in the item sequence d, 0 if absent
KeyIndex(d, k) ==
  IF \E i \in 1..Len(d) : d[i][1] = k
  THEN CHOOSE i \in 1..Len(d) : d[i][1] = k
  ELSE 0

\* variant: a list of pairs, every written entry kept
DictLiteral_list(w) == w

\* a dict display: a repeated key keeps its first position and takes the
\* value written last
RECURSIVE DictLiteral(_)
DictLiteral(w) ==
  IF w = <<>> THEN <<>>
  ELSE LET d == DictLiteral(SubSeq(w, 1, Len(w) - 1))
           e == w[Len(w)]
           i == KeyIndex(d, e[1])
       IN IF i = 0 THEN Append(d, e) ELSE [d EXCEPT ![i] = e]

(* ---------------------------- sf.read ---------------------------------- *)
\* sample of frame j, channel c (both 0-based) of recording rec: the samples
\* of a recording are pairwise distinct unless the recording is silent
DiskSample(rec, j, c) == rec.gain * (j * rec.channels + c + 1)

\* data, _ = sf.read(fname): shape (frames, channels), or (frames,) for mono
sf_read(rec) ==
  IF rec.channels = 1
  THEN [shape |-> <<rec.frames>>,
        rows |-> [j \in 1..rec.frames |-> DiskSample(rec, j - 1, 0)]]
  ELSE [shape |-> <<rec.frames, rec.channels>>,
        rows |-> [j \in 1..rec.frames |->
                    [c \in 1..rec.channels |-> DiskSample(rec, j - 1, c - 1)]]]

(* --------------------------- import_data ------------------------------- *)
\* the scalars of an array, in C order
Elements(a) ==
  IF Len(a.shape) = 1 THEN a.rows
  ELSE [k \in 1..(a.shape[1] * a.shape[2]) |->
          a.rows[((k - 1) \div a.shape[2]) + 1][((k - 1) % a.shape[2]) + 1]]

Size(a) == IF Len(a.shape) = 1 THEN a.shape[1] ELSE a.shape[1] * a.shape[2]

\* np.max(np.abs(data[:])) of a non-empty array
PeakAbs(a) ==
  LET e == Elements(a)
  IN CHOOSE m \in {Abs(e[k]) : k \in 1..Len(e)} :
       \A k \in 1..Len(e) : Abs(e[k]) <= m

\* data / peak, element by element
Normalize(a) ==
  LET p == PeakAbs(a)
  IN IF Len(a.shape) = 1
     THEN [a EXCEPT !.rows = [j \in 1..Len(a.rows) |-> Frac(a.rows[j], p)]]
     ELSE [a EXCEPT !.rows = [j \in 1..Len(a.rows) |->
             [c \in 1..Len(a.rows[j]) |-> Frac(a.rows[j][c], p)]]]

\* variant: order='C', the last axis varies fastest
Flatten_C(a) ==
  IF Len(a.shape) = 1 THEN a
  ELSE [shape |-> <<a.shape[1] * a.shape[2]>>,
        rows |-> [k \in 1..(a.shape[1] * a.shape[2]) |->
                    a.rows[((k - 1) \div a.shape[2]) + 1]
                          [((k - 1) % a.shape[2]) + 1]]]

\* np.ndarray.flatten(data, order='F'): the first axis varies fastest
Flatten(a) ==
  IF Len(a.shape) = 1 THEN a
  ELSE [shape |-> <<a.shape[1] * a.shape[2]>>,
        rows |-> [k \in 1..(a.shape[1] * a.shape[2]) |->
                    a.rows[((k - 1) % a.shape[1]) + 1]
                          [((k - 1) \div a.shape[1]) + 1]]]

\* variants: the quotient rounded down; one window more than the ceiling;
\* the quotient rounded down plus one
nseg_floor(len, L, S) == (len - L) \div S
nseg_extra(len, L, S) == Ceil(len - L, S) + 1
nseg_floor_plus1(len, L, S) == ((len - L) \div S) + 1

\* nseg = np.ceil((len(data) - segment_size) / segment_step)
nseg(len, L, S) == Ceil(len - L, S)

\* s[a:b] for 0 <= a <= b: clipped at the end of s
PySlice(s, a, b) == SubSeq(s, a + 1, Min(b, Len(s)))

\* [data[i*S : i*S + L] for i in range(int(n))]
Windows(s, n, L, S) ==
  [i \in 1..Max(0, n) |-> PySlice(s, (i - 1) * S, (i - 1) * S + L)]

\* np.array(list of rows): (0,) for an empty list, (k, w) for k rows of one
\* width w, and a 1-D array of k row objects for ragged rows
np_array(list) ==
  IF list = <<>> THEN EmptyArray
  ELSE IF \A i \in 1..Len(list) : Len(list[i]) = Len(list[1])
       THEN [shape |-> <<Len(list), Len(list[1])>>, rows |-> list]
       ELSE [shape |-> <<Len(list)>>, rows |-> list]

\* variants: the class taken as a column number counted from 1; one label
\* row more than there are windows
OneHotRows_shift(k, cls) ==
  [shape |-> <<k, n_classes>>,
   rows |-> [r \in 1..k |-> [c \in 1..n_classes |->
                               IF c = cls THEN 1 ELSE 0]]]
OneHotRows_extra(k, cls) ==
  [shape |-> <<k + 1, n_classes>>,
   rows |-> [r \in 1..(k + 1) |-> [c \in 1..n_classes |->
                                     IF c = cls + 1 THEN 1 ELSE 0]]]

\* y = np.zeros((k, n_classes)); y[:, cls] = 1
OneHotRows(k, cls) ==
  [shape |-> <<k, n_classes>>,
   rows |-> [r \in 1..k |-> [c \in 1..n_classes |->
                               IF c = cls + 1 THEN 1 ELSE 0]]]

(* ----------------------------- np.append ------------------------------- *)
\* variant: an empty second array is accepted whatever its shape
CanAppend_lenient(a, b) ==
  \/ b.rows = <<>>
  \/ /\ Len(a.shape) = Len(b.shape)
     /\ \A d \in 2..Len(a.shape) : a.shape[d] = b.shape[d]

\* np.append(a, b, axis=0) needs equal ndim and equal trailing dimensions
CanAppend(a, b) ==
  /\ Len(a.shape) = Len(b.shape)
  /\ \A d \in 2..Len(a.shape) : a.shape[d] = b.shape[d]

\* variant: the new rows placed in front
np_append_front(a, b) ==
  [shape |-> [a.shape EXCEPT ![1] = a.shape[1] + b.shape[1]],
   rows |-> b.rows \o a.rows]

np_append(a, b) ==
  [shape |-> [a.shape EXCEPT ![1] = a.shape[1] + b.shape[1]],
   rows |-> a.rows \o b.rows]

(* ------------------------------ inputs --------------------------------- *)
GenNames == {"a.wav", "b.wav"}
\* the generated tables use the first and the last class; the notebook's
\* table uses every class
GenClasses == {0, n_classes - 1}

\* the generated tables: every literal of at most MaxWritten entries
GenTables ==
  UNION {[1..n -> GenNames \X GenClasses] : n \in 0..MaxWritten}

NamesOf(w) == {w[i][1] : i \in 1..Len(w)}

Recordings ==
  [frames : 0..MaxFrames, channels : 1..MaxChannels, gain : {1}]
    \cup [frames : {MaxFrames}, channels : {MaxChannels}, gain : {0, -1}]

\* every assignment of recordings to the files of a generated table; for
\* the notebook's table all files hold the same recording
Disks(w) ==
  IF w \in GenTables THEN [NamesOf(w) -> Recordings]
  ELSE {[f \in NamesOf(w) |-> r] : r \in Recordings}

np_empty(cols) == [shape |-> <<0, cols>>, rows |-> <<>>]

Init ==
  /\ written \in GenTables \cup {NotebookTable}
  /\ flist = DictLiteral(written)
  /\ disk \in Disks(written)
  /\ segment_size \in 2..MaxSegSize
  /\ segment_step \in 1..(segment_size - 1)
  /\ pc = "for"
  /\ err = ""
  /\ idx = 0
  /\ fname = ""
  /\ nclass = 0
  /\ data = EmptyArray
  /\ im_X = EmptyArray
  /\ im_y = EmptyArray
  /\ Xt = EmptyArray
  /\ yt = EmptyArray
  /\ X = np_empty(segment_size)
  /\ y = np_empty(n_classes)
  /\ test = <<>>
  /\ train = <<>>
  /\ X_train = EmptyArray
  /\ X_test = EmptyArray
  /\ y_train = EmptyArray
  /\ y_test = EmptyArray
  /\ input_dim = 0
  /\ fit_X = EmptyArray
  /\ fit_y = EmptyArray
  /\ predict_X = EmptyArray
  /\ true = <<>>

ZeroSizeError == "ValueError: zero-size array to reduction operation maximum"
DimensionError == "ValueError: all the input arrays must have same number of dimensions"

Raise(e) == pc' = "error" /\ err' = e

(* ------------------------- the assembly loop --------------------------- *)
\* for fname, nclass in flist.items(): next item, or leave the loop
ForNext ==
  /\ pc = "for"
  /\ IF idx < Len(flist)
     THEN /\ idx' = idx + 1
          /\ fname' = flist[idx + 1][1]
          /\ nclass' = flist[idx + 1][2]
          /\ pc' = "read"
     ELSE /\ pc' = "fft"
          /\ UNCHANGED <<idx, fname, nclass>>
  /\ UNCHANGED <<inputs, err, data, im_X, im_y, Xt, yt, X, y,
                 splitvars, evalvars>>

Read ==
  /\ pc = "read"
  /\ data' = sf_read(disk[fname])
  /\ pc' = "normalize"
  /\ UNCHANGED <<inputs, err, idx, fname, nclass, im_X, im_y, Xt, yt, X, y,
                 splitvars, evalvars>>

\* data = data/np.max(np.abs(data[:])): np.max raises on an empty array
NormalizeStep ==
  /\ pc = "normalize"
  /\ IF Size(data) = 0
     THEN /\ Raise(ZeroSizeError)
          /\ UNCHANGED data
     ELSE /\ data' = Normalize(data)
          /\ pc' = "flatten"
          /\ UNCHANGED err
  /\ UNCHANGED <<inputs, idx, fname, nclass, im_X, im_y, Xt, yt, X, y,
                 splitvars, evalvars>>

FlattenStep ==
  /\ pc = "flatten"
  /\ data' = Flatten(data)
  /\ pc' = "segment"
  /\ UNCHANGED <<inputs, err, idx, fname, nclass, im_X, im_y, Xt, yt, X, y,
                 splitvars, evalvars>>

SegmentStep ==
  /\ pc = "segment"
  /\ im_X' = np_array(Windows(data.rows,
                              nseg(Len(data.rows), segment_size, segment_step),
                              segment_size, segment_step))
  /\ pc' = "labels"
  /\ UNCHANGED <<inputs, err, idx, fname, nclass, data, im_y, Xt, yt, X, y,
                 splitvars, evalvars>>

LabelStep ==
  /\ pc = "labels"
  /\ im_y' = OneHotRows(im_X.shape[1], nclass)
  /\ pc' = "return"
  /\ UNCHANGED <<inputs, err, idx, fname, nclass, data, im_X, Xt, yt, X, y,
                 splitvars, evalvars>>

\* Xt, yt = import_data(...)
Return ==
  /\ pc = "return"
  /\ Xt' = im_X
  /\ yt' = im_y
  /\ pc' = "append_X"
  /\ UNCHANGED <<inputs, err, idx, fname, nclass, data, im_X, im_y, X, y,
                 splitvars, evalvars>>

AppendX ==
  /\ pc = "append_X"
  /\ IF CanAppend(X, Xt)
     THEN /\ X' = np_append(X, Xt)
          /\ pc' = "append_y"
          /\ UNCHANGED err
     ELSE /\ Raise(DimensionError)
          /\ UNCHANGED X
  /\ UNCHANGED <<inputs, loopvars, y, splitvars, evalvars>>

AppendY ==
  /\ pc = "append_y"
  /\ IF CanAppend(y, yt)
     THEN /\ y' = np_append(y, yt)
          /\ pc' = "for"
          /\ UNCHANGED err
     ELSE /\ Raise(DimensionError)
          /\ UNCHANGED y
  /\ UNCHANGED <<inputs, loopvars, X, splitvars, evalvars>>

(* ------------------------ magnitude spectrum --------------------------- *)
\* np.float32(np.abs(np.fft.rfft(row))): w \div 2 + 1 bins for a row of
\* width w; bin k is kept symbolic as the pair <<k, row>>
Spectrum(row, w) == [k \in 1..((w \div 2) + 1) |-> <<k - 1, row>>]

rfft_abs(a) ==
  [shape |-> <<a.shape[1], (a.shape[2] \div 2) + 1>>,
   rows |-> [r \in 1..Len(a.rows) |-> Spectrum(a.rows[r], a.shape[2])]]

FFT ==
  /\ pc = "fft"
  /\ X' = rfft_abs(X)
  /\ pc' = "split"
  /\ UNCHANGED <<inputs, err, loopvars, y, splitvars, evalvars>>

(* -------------------------- train_test_split --------------------------- *)
IndexPermutations(n) ==
  {p \in [1..n -> 1..n] : \A i, j \in 1..n : p[i] = p[j] => i = j}

Rotation(n, k) == [i \in 1..n |-> ((i - 1 + k) % n) + 1]
Reversed(p) == [i \in 1..Len(p) |-> p[Len(p) + 1 - i]]

\* the orders rng.permutation(n) may return: every permutation of a short
\* index range, the first rotations and their reversals of a longer one
Shuffles(n) ==
  IF n <= MaxFullPerm THEN IndexPermutations(n)
  ELSE {Rotation(n, k) : k \in 0..MaxFullPerm}
         \cup {Reversed(Rotation(n, k)) : k \in 0..MaxFullPerm}

\* n_test = ceil(test_size * n_samples) with test_size = 1/4
NTest(n) == Ceil(n, 4)
\* n_train = n_samples - n_test
NTrain(n) == n - NTest(n)

\* variant: the train slice starts one position early
SplitIndices_overlap(perm, n_test, n_train) ==
  [test |-> SubSeq(perm, 1, n_test),
   train |-> SubSeq(perm, n_test, n_test + n_train)]

\* ind_test = permutation[:n_test]; ind_train = permutation[n_test:n_test + n_train]
SplitIndices(perm, n_test, n_train) ==
  [test |-> SubSeq(perm, 1, n_test),
   train |-> SubSeq(perm, n_test + 1, n_test + n_train)]

\* a[ix] for an index array ix (row numbers count from 1 here)
Take(a, ix) ==
  [shape |-> [a.shape EXCEPT ![1] = Len(ix)],
   rows |-> [k \in 1..Len(ix) |-> a.rows[ix[k]]]]

Split ==
  /\ pc = "split"
  /\ IF X.shape[1] # y.shape[1]
     THEN /\ Raise("ValueError: Found input variables with inconsistent numbers of samples")
          /\ UNCHANGED splitvars
     ELSE IF NTrain(X.shape[1]) = 0
     THEN /\ Raise("ValueError: the resulting train set will be empty")
          /\ UNCHANGED splitvars
     ELSE \E perm \in Shuffles(X.shape[1]) :
            LET ind == SplitIndices(perm, NTest(X.shape[1]), NTrain(X.shape[1]))
            IN /\ test' = ind.test
               /\ train' = ind.train
               /\ X_train' = Take(X, ind.train)
               /\ X_test' = Take(X, ind.test)
               /\ y_train' = Take(y, ind.train)
               /\ y_test' = Take(y, ind.test)
               /\ pc' = "build"
               /\ UNCHANGED err
  /\ UNCHANGED <<inputs, loopvars, X, y, evalvars>>

(* ------------------------ classifier cells ----------------------------- *)
\* keras.layers.Dense(64, input_dim=X_train.shape[1], ...)
Build ==
  /\ pc = "build"
  /\ input_dim' = X_train.shape[2]
  /\ pc' = "fit"
  /\ UNCHANGED <<inputs, err, loopvars, X, y, splitvars,
                 fit_X, fit_y, predict_X, true>>

\* history = model.fit(X_train, y_train, epochs=200, batch_size=128)
Fit ==
  /\ pc = "fit"
  /\ fit_X' = X_train
  /\ fit_y' = y_train
  /\ pc' = "evaluate"
  /\ UNCHANGED <<inputs, err, loopvars, X, y, splitvars,
                 input_dim, predict_X, true>>

\* np.argmax(row): the first position of the largest entry, from 0
ArgMax(row) ==
  (CHOOSE i \in 1..Len(row) :
     /\ \A j \in 1..Len(row) : row[j] <= row[i]
     /\ \A j \in 1..(i - 1) : row[j] < row[i]) - 1

\* predictions = model.predict(X_test); true = np.argmax(y_test, axis=1)
Evaluate ==
  /\ pc = "evaluate"
  /\ predict_X' = X_test
  /\ true' = [k \in 1..Len(y_test.rows) |-> ArgMax(y_test.rows[k])]
  /\ pc' = "done"
  /\ UNCHANGED <<inputs, err, loopvars, X, y, splitvars,
                 input_dim, fit_X, fit_y>>

Next ==
  \/ ForNext
  \/ Read
  \/ NormalizeStep
  \/ FlattenStep
  \/ SegmentStep
  \/ LabelStep
  \/ Return
  \/ AppendX
  \/ AppendY
  \/ FFT
  \/ Split
  \/ Build
  \/ Fit
  \/ Evaluate

Spec == Init /\ [][Next]_vars

TypeOK == pc \in {"for", "read", "normalize", "flatten", "segment", "labels",
                  "return", "append_X", "append_y", "fft", "split", "build",
                  "fit", "evaluate", "done", "error"}
(* ===================== properties of the notebook ====================== *)
\* the recording of the file the loop is at, and its flattened length
CurRec == disk[fname]
FlatLen(rec) == rec.frames * rec.channels

\* the normalised sample of frame j, channel c (0-based): the peak of a
\* recording on disk is |gain| * frames * channels
NormSample(rec, j, c) ==
  Frac(DiskSample(rec, j, c), Abs(rec.gain) * FlatLen(rec))

\* element q (from 1) of the channel-major sequence of rec
ChannelMajor(rec, q) ==
  NormSample(rec, (q - 1) % rec.frames, (q - 1) \div rec.frames)

\* the number k of windows with (k - 1) * S < N - L <= k * S, for N >= L
WinCount(N, L, S) ==
  CHOOSE k \in 0..N : (k - 1) * S < N - L /\ N - L <= k * S

IsOneHot(row, cls) ==
  /\ Len(row) = n_classes
  /\ \A c \in 1..n_classes : row[c] = (IF c = cls + 1 THEN 1 ELSE 0)

AfterFlatten == pc \in {"segment", "labels", "return", "append_X", "append_y"}
AfterSegment == pc \in {"labels", "return", "append_X", "append_y"}
AfterReturn == pc \in {"append_X", "append_y"}
AfterSplit == pc \in {"build", "fit", "evaluate", "done"}

\* C7: the flattened sequence of a recording with C channels of n samples
\* has length C*n and holds sample j of channel c at position c*n + j
C7_ChannelMajor ==
  AfterFlatten =>
    /\ data.shape = <<CurRec.channels * CurRec.frames>>
    /\ Len(data.rows) = CurRec.channels * CurRec.frames
    /\ \A c \in 0..(CurRec.channels - 1) : \A j \in 0..(CurRec.frames - 1) :
         data.rows[c * CurRec.frames + j + 1] = NormSample(CurRec, j, c)

C7_Witness ==
  /\ pc = "segment"
  /\ CurRec.channels = 2
  /\ CurRec.frames >= 2
  /\ CurRec.gain # 0

\* C1: a recording of flattened length N >= L yields exactly ceil((N-L)/S)
\* windows, window i (from 0) being the L samples from offset i*S of the
\* flattened sequence; 2 channels of 1024 samples with L=512, S=128 give 12
C1_WindowCount ==
  /\ nseg(2 * 1024, 512, 128) = 12
  /\ (AfterSegment /\ Len(data.rows) >= segment_size) =>
       LET N == Len(data.rows)
           k == im_X.shape[1]
       IN /\ N = FlatLen(CurRec)
          /\ k >= 0
          /\ (k - 1) * segment_step < N - segment_size
          /\ N - segment_size <= k * segment_step
          /\ Len(im_X.rows) = k
          /\ \A i \in 0..(k - 1) : \A p \in 1..segment_size :
               im_X.rows[i + 1][p] = data.rows[i * segment_step + p]

C1_Witness ==
  /\ pc = "labels"
  /\ Len(data.rows) >= segment_size
  /\ im_X.shape[1] >= 2
  /\ segment_step >= 2

\* C2: every label row import_data returns is the one-hot vector of the
\* recording's class: 1 in column nclass, 0 elsewhere, one row per window
C2_OneHotLabels ==
  AfterReturn =>
    /\ nclass \in Classes
    /\ yt.shape = <<Xt.shape[1], n_classes>>
    /\ Len(yt.rows) = Xt.shape[1]
    /\ \A r \in 1..Len(yt.rows) :
         /\ IsOneHot(yt.rows[r], nclass)
         /\ Cardinality({c \in 1..n_classes : yt.rows[r][c] = 1}) = 1

C2_Witness ==
  /\ pc = "append_X"
  /\ nclass = 3
  /\ Len(yt.rows) >= 2

\* C3: X and y have the same number of rows initially, after every
\* iteration of the loop and after the spectrum transform (in every state
\* but the one between the two appends), and y has n_classes columns
C3_RowsAligned ==
  /\ pc # "append_y" => (X.shape[1] = y.shape[1] /\ Len(X.rows) = Len(y.rows))
  /\ Len(X.shape) = 2
  /\ X.shape[1] = Len(X.rows)
  /\ y.shape = <<Len(y.rows), n_classes>>
  /\ \A r \in 1..Len(y.rows) : Len(y.rows[r]) = n_classes

C3_Witness ==
  /\ pc = "split"
  /\ idx = 2
  /\ X.shape[1] >= 3
  /\ X.shape[2] = (segment_size \div 2) + 1

RECURSIVE RowsBefore(_)
RowsBefore(k) ==
  IF k <= 1 THEN 0
  ELSE RowsBefore(k - 1)
         + WinCount(FlatLen(disk[flist[k - 1][1]]), segment_size, segment_step)

\* C5: at the head of the loop and after it, the rows of X and y are the
\* blocks of the files processed so far, in iteration order, each block
\* holding the file's windows in offset order with the file's one-hot label
C5_RowOrder ==
  pc \in {"for", "fft"} =>
    /\ X.shape[1] = RowsBefore(idx + 1)
    /\ \A k \in 1..idx :
         LET rec == disk[flist[k][1]]
             cnt == WinCount(FlatLen(rec), segment_size, segment_step)
         IN \A i \in 0..(cnt - 1) :
              /\ \A p \in 1..segment_size :
                   X.rows[RowsBefore(k) + i + 1][p]
                     = ChannelMajor(rec, i * segment_step + p)
              /\ IsOneHot(y.rows[RowsBefore(k) + i + 1], flist[k][2])

C5_Witness ==
  /\ pc = "fft"
  /\ idx = 2
  /\ disk[flist[1][1]] # disk[flist[2][1]]
  /\ flist[1][2] # flist[2][2]
  /\ RowsBefore(2) >= 2
  /\ RowsBefore(3) - RowsBefore(2) >= 2

Range(s) == {s[i] : i \in 1..Len(s)}
Injective(s) == \A i, j \in 1..Len(s) : s[i] = s[j] => i = j

\* C6: the split is a partition of the (feature row, label row) pairs,
\* each feature row keeps its own label row, the model is fitted on the
\* train partition only and evaluated on the test partition only
C6_SplitPartition ==
  AfterSplit =>
    /\ Len(train) + Len(test) = X.shape[1]
    /\ X_train.shape[1] + X_test.shape[1] = X.shape[1]
    /\ Injective(train) /\ Injective(test)
    /\ Range(train) \cap Range(test) = {}
    /\ Range(train) \cup Range(test) = 1..X.shape[1]
    /\ Len(X_train.rows) = Len(train) /\ Len(y_train.rows) = Len(train)
    /\ Len(X_test.rows) = Len(test) /\ Len(y_test.rows) = Len(test)
    /\ \A k \in 1..Len(train) :
         X_train.rows[k] = X.rows[train[k]] /\ y_train.rows[k] = y.rows[train[k]]
    /\ \A k \in 1..Len(test) :
         X_test.rows[k] = X.rows[test[k]] /\ y_test.rows[k] = y.rows[test[k]]
    /\ pc \in {"evaluate", "done"} =>
         /\ Len(fit_X.rows) = Len(train) /\ Len(fit_y.rows) = Len(train)
         /\ \A k \in 1..Len(train) :
              fit_X.rows[k] = X.rows[train[k]] /\ fit_y.rows[k] = y.rows[train[k]]
    /\ pc = "done" =>
         /\ Len(predict_X.rows) = Len(test) /\ Len(true) = Len(test)
         /\ \A k \in 1..Len(test) :
              /\ predict_X.rows[k] = X.rows[test[k]]
              /\ IsOneHot(y.rows[test[k]], true[k])

C6_Witness ==
  /\ pc = "done"
  /\ Len(test) >= 2
  /\ Len(train) >= 3
  /\ \E k \in 1..Len(test) : true[k] # true[1]

\* the class written last for name f in the literal w
LastWritten(w, f) ==
  w[CHOOSE i \in 1..Len(w) :
      w[i][1] = f /\ \A j \in (i + 1)..Len(w) : w[j][1] # f][2]

\* C8: a repeated filename is overwritten by its later entries, the loop
\* takes each distinct filename once, with the class written last; the
\* notebook's table of 20 entries loads 17 recordings, one of class 3
C8_DuplicateKeys ==
  /\ Len(flist) = Cardinality(NamesOf(written))
  /\ \A i, j \in 1..Len(flist) : flist[i][1] = flist[j][1] => i = j
  /\ \A i \in 1..Len(flist) :
       /\ flist[i][1] \in NamesOf(written)
       /\ flist[i][2] = LastWritten(written, flist[i][1])
  /\ idx \in 0..Len(flist)
  /\ (idx > 0 /\ pc # "for") => (fname = flist[idx][1] /\ nclass = flist[idx][2])
  /\ pc \in {"fft", "split"} => idx = Cardinality(NamesOf(written))
  /\ written = NotebookTable =>
       /\ Len(written) = 20
       /\ Cardinality({i \in 1..20 : written[i][1] = "messing_nut_M4_1.wav"}) = 4
       /\ Len(flist) = 17
       /\ Cardinality({i \in 1..Len(flist) : flist[i][2] = 3}) = 1
       /\ pc \in {"fft", "split"} =>
            /\ idx = 17
            /\ Cardinality({r \in 1..Len(y.rows) : y.rows[r][4] = 1})
                 = WinCount(FlatLen(disk["messing_nut_M4_1.wav"]),
                            segment_size, segment_step)

C8_Witness ==
  /\ written = NotebookTable
  /\ pc = "split"
  /\ Len(y.rows) >= 2 * 17

C8_WitnessOverwrite ==
  /\ Len(written) = 2
  /\ written[1][1] = written[2][1]
  /\ written[1][2] # written[2][2]
  /\ pc = "fft"
  /\ Len(y.rows) >= 1

\* C9 as written: a recording of flattened length N <= L makes import_data
\* return zero windows and zero label rows, and adds no row to X or y
ImportEnded == pc \in {"append_X", "append_y", "error"}

C9_Original ==
  (idx > 0 /\ FlatLen(CurRec) <= segment_size /\ ImportEnded) =>
    /\ err # ZeroSizeError
    /\ Xt.shape[1] = 0
    /\ yt.shape[1] = 0
    /\ X.shape[1] = RowsBefore(idx)
    /\ y.shape[1] = RowsBefore(idx)

\* C9 amended: a recording with 1 <= N <= L makes import_data return zero
\* windows (the 1-D empty array) and zero label rows, never a negative
\* count; appending the 1-D array to X then raises, so the run ends with
\* no row added to X or y.  An empty recording (N = 0) makes import_data
\* raise at the normalisation, again with no row added
C9_ShortRecording ==
  (idx > 0 /\ FlatLen(CurRec) <= segment_size) =>
    /\ pc \notin {"append_y", "for", "fft", "split", "build", "fit",
                  "evaluate", "done"}
    /\ pc \in {"flatten", "segment", "labels", "return", "append_X"}
         => FlatLen(CurRec) >= 1
    /\ pc \in {"labels", "return", "append_X"} =>
         /\ nseg(Len(data.rows), segment_size, segment_step) <= 0
         /\ im_X = EmptyArray
    /\ pc \in {"return", "append_X"} => im_y = np_empty(n_classes)
    /\ pc = "append_X" => (Xt = EmptyArray /\ yt = np_empty(n_classes))
    /\ X.shape[1] = RowsBefore(idx) /\ Len(X.rows) = RowsBefore(idx)
    /\ y.shape[1] = RowsBefore(idx) /\ Len(y.rows) = RowsBefore(idx)
    /\ pc = "error" =>
         err = (IF FlatLen(CurRec) = 0 THEN ZeroSizeError ELSE DimensionError)

C9_Witness ==
  /\ idx = 2
  /\ pc = "error"
  /\ err = DimensionError
  /\ FlatLen(CurRec) < segment_size - segment_step
  /\ X.shape[1] >= 2

\* C10 as written: every window with i*S + L <= N is returned, so the
\* number of windows is floor((N - L)/S) + 1 whenever N >= L
C10_Original ==
  (AfterSegment /\ Len(data.rows) >= segment_size) =>
    /\ im_X.shape[1] = ((Len(data.rows) - segment_size) \div segment_step) + 1
    /\ \A i \in 0..Len(data.rows) :
         i * segment_step + segment_size <= Len(data.rows) =>
           \E r \in 1..Len(im_X.rows) :
             im_X.rows[r] = SubSeq(data.rows, i * segment_step + 1,
                                   i * segment_step + segment_size)

\* C10 amended: the windows returned are exactly those with i*S + L < N,
\* so the count is ceil((N - L)/S); when S divides N - L the full window
\* at offset N - L is not returned and the count is floor((N - L)/S)
C10_StrictWindows ==
  (AfterSegment /\ Len(data.rows) >= segment_size) =>
    LET N == Len(data.rows)
        fits == {i \in 0..N : i * segment_step + segment_size < N}
    IN /\ im_X.shape[1] = Cardinality(fits)
       /\ \A i \in fits :
            im_X.rows[i + 1] = SubSeq(data.rows, i * segment_step + 1,
                                      i * segment_step + segment_size)
       /\ (N - segment_size) % segment_step = 0 =>
            /\ im_X.shape[1] = (N - segment_size) \div segment_step
            /\ (Len(im_X.rows) - 1) * segment_step < N - segment_size

C10_Witness ==
  /\ pc = "labels"
  /\ Len(data.rows) > segment_size
  /\ (Len(data.rows) - segment_size) % segment_step = 0
  /\ im_X.shape[1] >= 2
====
